---- MODULE Spec2Model ----
(***************************************************************************)
(* asynciojobs: a scheduler that orchestrates jobs connected by `requires` *)
(* edges, under a window of simultaneous jobs, a global timeout and a      *)
(* critical-job fail-fast policy.                                          *)
(*                                                                         *)
(* The scheduling loop follows the design document (spec.md, section 4.3)  *)
(* step by step; what README.ipynb states about orchestrate, and what its  *)
(* listings record of jobs after orchestrate returned, is taken as the     *)
(* behaviour of the code.                                                  *)
(***************************************************************************)
EXTENDS Integers, FiniteSets, Sequences, TLC

\* Model bounds.
NJobs == 2
MaxWindow == 2
MaxSanitize == 2

\* Job identities that exist in the program: up to NJobs jobs of the
\* scheduler, and a job created outside of it.
Nodes == 1..(NJobs + 1)

VARIABLES
    jobs,          \* Scheduler.jobs: the scheduler's collection
    requires,      \* job.requires(...): requires[b] is the set b waits for
    forever,       \* Job(..., forever=True)
    critical,      \* Job(..., critical=...): "yes", "no" or "unset"
    schedCritical, \* Scheduler(critical=...), the default for unset jobs
    window,        \* orchestrate(jobs_window=...); 0 means no limit
    hasTimeout,    \* orchestrate(timeout=...) was given
    status,        \* per job: "idle", "scheduled", "running", "done"
    outcome,       \* per job: "none", "value", "exception"
    task,          \* per job's unit of work: "none", "pending", "returned",
                   \*   "raised", "cancelled"
    pc,            \* position of co_orchestrate
    abort,         \* a critical job raised
    elapsed,       \* the global timeout elapsed
    shutdowns,     \* per job: how many times co_shutdown() was sent
    result,        \* orchestrate's return value, once pc = "returned"
    sanitizes,     \* how many times sanitize() was called
    verdict        \* rain_check's return value: "none", "true", "false"

vars == <<jobs, requires, forever, critical, schedCritical, window, hasTimeout,
          status, outcome, task, pc, abort, elapsed, shutdowns, result,
          sanitizes, verdict>>

\* what a run of orchestrate and a call of rain_check leave alone
config == <<jobs, requires, forever, critical, schedCritical, window, hasTimeout,
            sanitizes>>

Criticals == {"yes", "no", "unset"}

----------------------------------------------------------------------------
\* Job entity

\* (variant: the scheduler's setting wins over the job's)
is_critical_scheduler_wins(j) == schedCritical \/ critical[j] = "yes"

\* critical set on the job takes precedence, else the scheduler's default
is_critical(j) ==
    IF critical[j] = "unset" THEN schedCritical ELSE critical[j] = "yes"

is_done(j) == status[j] = "done"

\* (variant: a requirement counts as fulfilled unless it is in progress)
requirements_ok_not_running(j) ==
    \A a \in requires[j] : status[a] \notin {"scheduled", "running"}

\* (variant: a job is not held back by a requirement on itself)
requirements_ok_but_self(j) == \A a \in requires[j] \ {j} : is_done(a)

\* (variant: only the requirements inside the scheduler are looked at)
requirements_ok_inside(j) == \A a \in requires[j] \cap jobs : is_done(a)

\* the requirements of j are fulfilled: every required job is done
requirements_ok(j) == \A a \in requires[j] : is_done(a)

\* Job.result(): the value returned by a job that is done and did not
\* raise; any other job has no result to give and the call fails
job_result(j) ==
    IF is_done(j) /\ outcome[j] = "value" THEN "value" ELSE "OutcomeError"

NonForever == {j \in jobs : ~forever[j]}

Running == {j \in jobs : status[j] = "running"}

Scheduled == {j \in jobs : status[j] = "scheduled"}

\* (variant: the comparison with the window is off by one)
window_free_off_by_one == window = 0 \/ Cardinality(Running) <= window

\* (variant: the forever jobs are not counted against the window)
window_free_skips_forever ==
    window = 0 \/ Cardinality({j \in Running : ~forever[j]}) < window

\* (variant: the window keeps one slot unused)
window_free_spare_slot == window = 0 \/ Cardinality(Running) + 1 < window

\* a slot of the jobs window is free
window_free == window = 0 \/ Cardinality(Running) < window

\* (variant: the forever jobs are waited for as well)
all_jobs_done == \A j \in jobs : is_done(j)

\* every job that is not forever is done
all_done == \A j \in NonForever : is_done(j)

----------------------------------------------------------------------------
\* State after the jobs and the scheduler are constructed and orchestrate
\* is entered. Acyclic graphs are drawn with edges towards smaller
\* identities: every DAG is one of them up to renaming.
TypeOK ==
    /\ jobs \subseteq Nodes
    /\ requires \in [Nodes -> SUBSET Nodes]
    /\ forever \in [Nodes -> BOOLEAN]
    /\ critical \in [Nodes -> Criticals]
    /\ schedCritical \in BOOLEAN
    /\ window \in 0..MaxWindow
    /\ hasTimeout \in BOOLEAN
    /\ status \in [Nodes -> {"idle", "scheduled", "running", "done"}]
    /\ outcome \in [Nodes -> {"none", "value", "exception"}]
    /\ task \in [Nodes -> {"none", "pending", "returned", "raised", "cancelled"}]
    /\ pc \in {"admit", "launch", "wait", "complete", "check", "cancel",
               "shutdown", "return", "returned"}
    /\ abort \in BOOLEAN
    /\ elapsed \in BOOLEAN
    /\ shutdowns \in [Nodes -> Nat]
    /\ result \in BOOLEAN
    /\ sanitizes \in 0..MaxSanitize
    /\ verdict \in {"none", "true", "false"}

FreshRun ==
    /\ status = [j \in Nodes |-> "idle"]
    /\ outcome = [j \in Nodes |-> "none"]
    /\ task = [j \in Nodes |-> "none"]
    /\ pc = "admit"
    /\ abort = FALSE
    /\ elapsed = FALSE
    /\ shutdowns = [j \in Nodes |-> 0]
    /\ result = FALSE
    /\ sanitizes = 0
    /\ verdict = "none"

\* the scheduler holds the jobs 1..k; a job it does not hold keeps the
\* defaults of a fresh Job
Collections == {1..k : k \in 1..NJobs}

DefaultsOutside ==
    \A j \in Nodes \ jobs :
        requires[j] = {} /\ ~forever[j] /\ critical[j] = "unset"

Init ==
    /\ jobs \in Collections
    /\ requires \in [Nodes -> SUBSET Nodes]
    /\ \A b \in Nodes : \A a \in requires[b] : a < b
    /\ forever \in [Nodes -> BOOLEAN]
    /\ critical \in [Nodes -> Criticals]
    /\ DefaultsOutside
    /\ schedCritical \in BOOLEAN
    /\ window \in 0..MaxWindow
    /\ hasTimeout \in BOOLEAN
    /\ FreshRun

----------------------------------------------------------------------------
\* The orchestration loop

\* (variant: only the jobs without requirements ever get scheduled)
Admit_entry_only ==
    /\ pc = "admit"
    /\ status' = [j \in Nodes |->
                    IF j \in jobs /\ status[j] = "idle" /\ requires[j] = {}
                    THEN "scheduled" ELSE status[j]]
    /\ pc' = "launch"
    /\ UNCHANGED <<config, outcome, task, abort, elapsed, shutdowns, result, verdict>>

\* step 1: every idle job whose requirements are all done gets scheduled
Admit ==
    /\ pc = "admit"
    /\ status' = [j \in Nodes |->
                    IF j \in jobs /\ status[j] = "idle" /\ requirements_ok(j)
                    THEN "scheduled" ELSE status[j]]
    /\ pc' = "launch"
    /\ UNCHANGED <<config, outcome, task, abort, elapsed, shutdowns, result, verdict>>

\* (variant: one job at most is started in each round of the loop)
Launch_one_per_round(j) ==
    /\ pc = "launch"
    /\ j \in Scheduled
    /\ window_free
    /\ status' = [status EXCEPT ![j] = "running"]
    /\ task' = [task EXCEPT ![j] = "pending"]
    /\ pc' = "wait"
    /\ UNCHANGED <<config, outcome, abort, elapsed, shutdowns, result, verdict>>

\* (variant: a scheduled job is started whether or not the window has room)
Launch_ignores_window(j) ==
    /\ pc = "launch"
    /\ j \in Scheduled
    /\ status' = [status EXCEPT ![j] = "running"]
    /\ task' = [task EXCEPT ![j] = "pending"]
    /\ UNCHANGED <<config, outcome, pc, abort, elapsed, shutdowns, result, verdict>>

\* step 2: while a job is scheduled and a slot is free, start one
Launch(j) ==
    /\ pc = "launch"
    /\ j \in Scheduled
    /\ window_free
    /\ status' = [status EXCEPT ![j] = "running"]
    /\ task' = [task EXCEPT ![j] = "pending"]
    /\ UNCHANGED <<config, outcome, pc, abort, elapsed, shutdowns, result, verdict>>

LaunchEnd ==
    /\ pc = "launch"
    /\ ~(Scheduled # {} /\ window_free)
    /\ pc' = "wait"
    /\ UNCHANGED <<config, status, outcome, task, abort, elapsed, shutdowns,
                   result, verdict>>

\* (variant: the outcome shows on the job as soon as its work ends, before
\* the loop has marked the job done)
Finish_shows_outcome(j, how) ==
    /\ pc = "wait"
    /\ j \in jobs
    /\ task[j] = "pending"
    /\ ~forever[j]
    /\ task' = [task EXCEPT ![j] = how]
    /\ outcome' = [outcome EXCEPT ![j] = IF how = "raised" THEN "exception"
                                          ELSE "value"]
    /\ UNCHANGED <<config, status, pc, abort, elapsed, shutdowns, result, verdict>>

\* while the loop is suspended in its wait, the unit of work of a running
\* job that is not forever returns or raises
Finish(j, how) ==
    /\ pc = "wait"
    /\ j \in jobs
    /\ task[j] = "pending"
    /\ ~forever[j]
    /\ task' = [task EXCEPT ![j] = how]
    /\ UNCHANGED <<config, status, outcome, pc, abort, elapsed, shutdowns,
                   result, verdict>>

\* while the loop is suspended in its wait, the global timeout elapses
Timeout ==
    /\ pc = "wait"
    /\ hasTimeout
    /\ ~elapsed
    /\ elapsed' = TRUE
    /\ UNCHANGED <<config, status, outcome, task, pc, abort, shutdowns,
                   result, verdict>>

Finished == {j \in jobs : status[j] = "running" /\ task[j] \in {"returned", "raised"}}

\* step 3: the wait ends once a running job has finished or the timeout
\* has elapsed
Wake ==
    /\ pc = "wait"
    /\ Finished # {} \/ elapsed
    /\ pc' = "complete"
    /\ UNCHANGED <<config, status, outcome, task, abort, elapsed, shutdowns,
                   result, verdict>>

\* (variant: any job that raised sets the abort flag, critical or not)
Complete_all_critical ==
    /\ pc = "complete"
    /\ status' = [j \in Nodes |-> IF j \in Finished THEN "done" ELSE status[j]]
    /\ outcome' = [j \in Nodes |->
                     IF j \in Finished
                     THEN (IF task[j] = "raised" THEN "exception" ELSE "value")
                     ELSE outcome[j]]
    /\ abort' = (abort \/ \E j \in Finished : task[j] = "raised")
    /\ pc' = "check"
    /\ UNCHANGED <<config, task, elapsed, shutdowns, result, verdict>>

\* (variant: the value returned by a job is not recorded)
Complete_forgets_value ==
    /\ pc = "complete"
    /\ status' = [j \in Nodes |-> IF j \in Finished THEN "done" ELSE status[j]]
    /\ outcome' = [j \in Nodes |->
                     IF j \in Finished /\ task[j] = "raised" THEN "exception"
                     ELSE outcome[j]]
    /\ abort' = (abort \/ \E j \in Finished : task[j] = "raised" /\ is_critical(j))
    /\ pc' = "check"
    /\ UNCHANGED <<config, task, elapsed, shutdowns, result, verdict>>

\* (variant: the exception of a critical job is not recorded on the job)
Complete_loses_critical ==
    /\ pc = "complete"
    /\ status' = [j \in Nodes |-> IF j \in Finished THEN "done" ELSE status[j]]
    /\ outcome' = [j \in Nodes |->
                     IF j \in Finished
                     THEN (IF task[j] = "returned" THEN "value"
                           ELSE IF is_critical(j) THEN outcome[j] ELSE "exception")
                     ELSE outcome[j]]
    /\ abort' = (abort \/ \E j \in Finished : task[j] = "raised" /\ is_critical(j))
    /\ pc' = "check"
    /\ UNCHANGED <<config, task, elapsed, shutdowns, result, verdict>>

\* step 4: record the outcome of every job that just finished; a critical
\* job that raised sets the abort flag
Complete ==
    /\ pc = "complete"
    /\ status' = [j \in Nodes |-> IF j \in Finished THEN "done" ELSE status[j]]
    /\ outcome' = [j \in Nodes |->
                     IF j \in Finished
                     THEN (IF task[j] = "raised" THEN "exception" ELSE "value")
                     ELSE outcome[j]]
    /\ abort' = (abort \/ \E j \in Finished : task[j] = "raised" /\ is_critical(j))
    /\ pc' = "check"
    /\ UNCHANGED <<config, task, elapsed, shutdowns, result, verdict>>

\* (variant: the abort flag does not stop the loop)
Check_no_abort ==
    /\ pc = "check"
    /\ pc' = IF elapsed \/ all_done THEN "cancel" ELSE "admit"
    /\ UNCHANGED <<config, status, outcome, task, abort, elapsed, shutdowns,
                   result, verdict>>

\* (variant: an elapsed timeout does not stop the loop)
Check_no_timeout ==
    /\ pc = "check"
    /\ pc' = IF abort \/ all_done THEN "cancel" ELSE "admit"
    /\ UNCHANGED <<config, status, outcome, task, abort, elapsed, shutdowns,
                   result, verdict>>

\* steps 5 and 6: stop on abort or timeout, stop when every job that is not
\* forever is done, else go round again
Check ==
    /\ pc = "check"
    /\ pc' = IF abort \/ elapsed \/ all_done THEN "cancel" ELSE "admit"
    /\ UNCHANGED <<config, status, outcome, task, abort, elapsed, shutdowns,
                   result, verdict>>

\* (variant: the jobs that never started are closed as well)
Cancel_closes_all ==
    /\ pc = "cancel"
    /\ task' = [j \in Nodes |-> IF j \in jobs /\ ~is_done(j) THEN "cancelled"
                                 ELSE task[j]]
    /\ status' = [j \in Nodes |-> IF j \in jobs /\ status[j] \in {"idle", "scheduled"}
                                   THEN "done" ELSE status[j]]
    /\ pc' = "shutdown"
    /\ UNCHANGED <<config, outcome, abort, elapsed, shutdowns, result, verdict>>

\* (variant: only the forever jobs are cancelled)
Cancel_forever_only ==
    /\ pc = "cancel"
    /\ task' = [j \in Nodes |-> IF j \in Running /\ forever[j] THEN "cancelled"
                                 ELSE task[j]]
    /\ pc' = "shutdown"
    /\ UNCHANGED <<config, status, outcome, abort, elapsed, shutdowns, result, verdict>>

\* (variant: a cancelled job is marked done)
Cancel_marks_done ==
    /\ pc = "cancel"
    /\ task' = [j \in Nodes |-> IF j \in Running THEN "cancelled" ELSE task[j]]
    /\ status' = [j \in Nodes |-> IF j \in Running THEN "done" ELSE status[j]]
    /\ pc' = "shutdown"
    /\ UNCHANGED <<config, outcome, abort, elapsed, shutdowns, result, verdict>>

\* step 7, first half: the jobs still running are cancelled. The listings
\* of README.ipynb after orchestrate show such a job without a result and
\* still under the `running` pictogram.
Cancel ==
    /\ pc = "cancel"
    /\ task' = [j \in Nodes |-> IF j \in Running THEN "cancelled" ELSE task[j]]
    /\ pc' = "shutdown"
    /\ UNCHANGED <<config, status, outcome, abort, elapsed, shutdowns, result, verdict>>

\* (variant: only the jobs that are done get co_shutdown())
Shutdown_done_only ==
    /\ pc = "shutdown"
    /\ shutdowns' = [j \in Nodes |-> IF j \in jobs /\ is_done(j)
                                     THEN shutdowns[j] + 1 ELSE shutdowns[j]]
    /\ pc' = "return"
    /\ UNCHANGED <<config, status, outcome, task, abort, elapsed, result, verdict>>

\* step 7, second half: co_shutdown() is sent to all the jobs
Shutdown ==
    /\ pc = "shutdown"
    /\ shutdowns' = [j \in Nodes |-> IF j \in jobs THEN shutdowns[j] + 1
                                     ELSE shutdowns[j]]
    /\ pc' = "return"
    /\ UNCHANGED <<config, status, outcome, task, abort, elapsed, result, verdict>>

\* (variant: the return value forgets the critical exception)
Return_ignoring_abort ==
    /\ pc = "return"
    /\ result' = (all_done /\ ~elapsed)
    /\ pc' = "returned"
    /\ UNCHANGED <<config, status, outcome, task, abort, elapsed, shutdowns, verdict>>

\* (variant: the jobs being all done is looked at before the critical
\* exception, CHANGELOG.md 0.3.2)
Return_done_first ==
    /\ pc = "return"
    /\ result' = (all_done \/ (~abort /\ ~elapsed))
    /\ pc' = "returned"
    /\ UNCHANGED <<config, status, outcome, task, abort, elapsed, shutdowns, verdict>>

\* step 8: the return value
Return ==
    /\ pc = "return"
    /\ result' = (all_done /\ ~abort /\ ~elapsed)
    /\ pc' = "returned"
    /\ UNCHANGED <<config, status, outcome, task, abort, elapsed, shutdowns, verdict>>

Next ==
    \/ Admit
    \/ \E j \in Nodes : Launch(j)
    \/ LaunchEnd
    \/ \E j \in Nodes : \E how \in {"returned", "raised"} : Finish(j, how)
    \/ Timeout
    \/ Wake
    \/ Complete
    \/ Check
    \/ Cancel
    \/ Shutdown
    \/ Return

Spec == Init /\ [][Next]_vars

\* The same engine when the coroutine of a job declared forever does end:
\* nothing but the caller's word makes a coroutine endless (the one of
\* README.ipynb, Example D, is a loop of 100000 rounds), and the listing of
\* "all possible combinations of jobs" has forever jobs that are done.
FinishForever(j, how) ==
    /\ pc = "wait"
    /\ j \in jobs
    /\ task[j] = "pending"
    /\ forever[j]
    /\ task' = [task EXCEPT ![j] = how]
    /\ UNCHANGED <<config, status, outcome, pc, abort, elapsed, shutdowns,
                   result, verdict>>

NextForeverEnds ==
    \/ Next
    \/ \E j \in Nodes, how \in {"returned", "raised"} : FinishForever(j, how)

SpecForeverEnds == Init /\ [][NextForeverEnds]_vars

----------------------------------------------------------------------------
\* Dependency-graph utilities

\* depth-first traversal along the requires edges that stay inside the
\* collection; path holds the jobs on the current path, and meeting one of
\* them again is a cycle
RECURSIVE dfs_cycle(_, _)
dfs_cycle(j, path) ==
    IF j \in path THEN TRUE
    ELSE \E a \in requires[j] \cap jobs : dfs_cycle(a, path \cup {j})

\* (variant: the traversal also follows the requirements that are not in
\* the scheduler)
RECURSIVE dfs_cycle_anywhere(_, _)
dfs_cycle_anywhere(j, path) ==
    IF j \in path THEN TRUE
    ELSE \E a \in requires[j] : dfs_cycle_anywhere(a, path \cup {j})

rain_check_anywhere == ~ \E j \in jobs : dfs_cycle_anywhere(j, {})

\* Scheduler.rain_check(): TRUE when no traversal meets a cycle
rain_check == ~ \E j \in jobs : dfs_cycle(j, {})

RainCheck ==
    /\ verdict' = IF rain_check THEN "true" ELSE "false"
    /\ UNCHANGED <<config, status, outcome, task, pc, abort, elapsed,
                   shutdowns, result>>

\* (variant: a job with a requirement outside the scheduler loses all its
\* requirements)
Sanitize_drops_all ==
    /\ sanitizes < MaxSanitize
    /\ requires' = [j \in Nodes |->
                      IF j \in jobs /\ ~(requires[j] \subseteq jobs)
                      THEN {} ELSE requires[j]]
    /\ sanitizes' = sanitizes + 1
    /\ UNCHANGED <<jobs, forever, critical, schedCritical, window, hasTimeout,
                   status, outcome, task, pc, abort, elapsed, shutdowns,
                   result, verdict>>

\* (variant: a call removes one requirement outside the scheduler per job,
\* the others are left for the next call)
Sanitize_one_per_call ==
    /\ sanitizes < MaxSanitize
    /\ requires' = [j \in Nodes |->
                      IF j \in jobs /\ ~(requires[j] \subseteq jobs)
                      THEN requires[j] \ {CHOOSE a \in requires[j] : a \notin jobs}
                      ELSE requires[j]]
    /\ sanitizes' = sanitizes + 1
    /\ UNCHANGED <<jobs, forever, critical, schedCritical, window, hasTimeout,
                   status, outcome, task, pc, abort, elapsed, shutdowns,
                   result, verdict>>

\* Scheduler.sanitize(): drop the requirements that are not in the scheduler
Sanitize ==
    /\ sanitizes < MaxSanitize
    /\ requires' = [j \in Nodes |-> IF j \in jobs THEN requires[j] \cap jobs
                                   ELSE requires[j]]
    /\ sanitizes' = sanitizes + 1
    /\ UNCHANGED <<jobs, forever, critical, schedCritical, window, hasTimeout,
                   status, outcome, task, pc, abort, elapsed, shutdowns,
                   result, verdict>>

\* any requires relation over the jobs that exist, any collection of them
InitGraph ==
    /\ jobs \in SUBSET Nodes
    /\ requires \in [Nodes -> SUBSET Nodes]
    /\ forever = [j \in Nodes |-> FALSE]
    /\ critical = [j \in Nodes |-> "unset"]
    /\ schedCritical = FALSE
    /\ window = 0
    /\ hasTimeout = FALSE
    /\ FreshRun

NextGraph ==
    \/ RainCheck
    \/ Sanitize

SpecGraph == InitGraph /\ [][NextGraph]_vars

----------------------------------------------------------------------------
\* Runs over any requirements graph, cycles and requirements outside the
\* scheduler included: orchestrate checks nothing by itself, sanitize() and
\* rain_check() are for the caller to call before the orchestration. Jobs
\* keep the scheduler's critical setting and the window is unlimited.
InitAnyGraph ==
    /\ jobs \in Collections
    /\ requires \in [Nodes -> SUBSET Nodes]
    /\ forever \in [Nodes -> BOOLEAN]
    /\ critical = [j \in Nodes |-> "unset"]
    /\ DefaultsOutside
    /\ schedCritical \in BOOLEAN
    /\ window = 0
    /\ hasTimeout \in BOOLEAN
    /\ FreshRun

\* the caller sanitizes the scheduler before the orchestration
SanitizeFirst == FreshRun /\ Sanitize

NextAnyGraph ==
    \/ SanitizeFirst
    \/ Next

SpecAnyGraph == InitAnyGraph /\ [][NextAnyGraph]_vars

----------------------------------------------------------------------------
\* Runs in which no job is forever or critical, no timeout is given and
\* every unit of work returns. The event loop keeps running what is ready,
\* and every unit of work ends: weak fairness of the steps.
InitSuccess ==
    /\ Init
    /\ \A j \in jobs : ~forever[j] /\ ~is_critical(j)
    /\ ~hasTimeout

NextSuccess ==
    \/ Admit
    \/ \E j \in Nodes : Launch(j)
    \/ LaunchEnd
    \/ \E j \in Nodes : Finish(j, "returned")
    \/ Wake
    \/ Complete
    \/ Check
    \/ Cancel
    \/ Shutdown
    \/ Return

SpecSuccess == InitSuccess /\ [][NextSuccess]_vars /\ WF_vars(NextSuccess)

\* The same runs when a unit of work may also raise: no job is critical,
\* so the exception stays with its job (README.ipynb, Example E).
NextEnding ==
    \/ Admit
    \/ \E j \in Nodes : Launch(j)
    \/ LaunchEnd
    \/ \E j \in Nodes, how \in {"returned", "raised"} : Finish(j, how)
    \/ Wake
    \/ Complete
    \/ Check
    \/ Cancel
    \/ Shutdown
    \/ Return

SpecEnding == InitSuccess /\ [][NextEnding]_vars /\ WF_vars(NextEnding)

----------------------------------------------------------------------------
\* Properties

LoopOver == pc \in {"cancel", "shutdown", "return", "returned"}

CriticalRaised == \E j \in jobs : outcome[j] = "exception" /\ is_critical(j)

\* C1: a job that requires another job of the scheduler is neither
\* scheduled nor running (nor done) while that job is not done: it leaves
\* idle only once every required job is done, whether it returned or raised.
C1_RequirementsFirst ==
    \A b \in jobs : \A a \in requires[b] \cap jobs :
        status[b] # "idle" => status[a] = "done"

C1_Witness ==
    \E b \in jobs : \E a \in requires[b] \cap jobs :
        status[b] = "running" /\ outcome[a] = "exception"

\* C2: orchestrate returns True exactly when every job that is not forever
\* is done, no critical job raised (the abort flag is not set) and the
\* timeout did not elapse, whether or not other jobs raised.
C2_ReturnValue ==
    pc = "returned" =>
        /\ result <=> ((\A j \in NonForever : status[j] = "done")
                        /\ ~abort /\ ~elapsed)
        /\ abort <=> CriticalRaised

C2_Witness ==
    /\ pc = "returned"
    /\ result
    /\ \E j \in jobs : outcome[j] = "exception"

\* C3: when a critical job raises, the exception is recorded with the job
\* done, orchestrate returns False, and a job that is idle once the abort
\* flag is set stays idle and is never started.
C3_Recorded ==
    \A j \in jobs :
        (task[j] = "raised" /\ is_critical(j) /\ pc \notin {"wait", "complete"})
        => /\ status[j] = "done"
           /\ outcome[j] = "exception"
           /\ abort
           /\ (pc = "returned" => ~result)

C3_IdleStays ==
    \A j \in jobs :
        (abort /\ status[j] = "idle") => (status'[j] = "idle" /\ task'[j] = "none")

C3_CriticalAbort == []C3_Recorded /\ [][C3_IdleStays]_vars

C3_Witness ==
    /\ pc = "returned"
    /\ ~result
    /\ CriticalRaised
    /\ \E j \in jobs : status[j] = "idle"

\* C4: a job that is not critical and raises is done all the same, the
\* jobs that require it are scheduled as soon as all they require is done,
\* and the exception does not set the abort flag: without a critical
\* exception and without timeout orchestrate returns True.
C4_NonCriticalProceeds ==
    /\ \A j \in jobs :
           (task[j] = "raised" /\ ~is_critical(j) /\ pc \notin {"wait", "complete"})
           => (status[j] = "done" /\ outcome[j] = "exception")
    /\ pc = "launch" =>
           \A b \in jobs : status[b] = "idle" =>
               \E a \in requires[b] : status[a] # "done"
    /\ abort => CriticalRaised
    /\ (pc = "returned" /\ ~CriticalRaised /\ ~elapsed) => result

C4_Witness ==
    /\ pc = "returned"
    /\ result
    /\ \E b \in jobs : \E a \in requires[b] :
           outcome[a] = "exception" /\ outcome[b] = "value"

\* C5: with a window of N >= 1 at most N jobs are running in every state,
\* forever jobs included; with a window of 0 nothing is capped: the loop
\* waits only once every scheduled job has been started.
C5_Window ==
    /\ window >= 1 => Cardinality(Running) <= window
    /\ (window = 0 /\ pc = "wait") => Scheduled = {}

C5_Witness ==
    /\ window >= 1
    /\ Cardinality(Running) = window
    /\ Scheduled # {}
    /\ pc = "wait"

\* C6: with an acyclic graph, no critical job, no timeout and every unit of
\* work returning, orchestrate eventually returns True with every job done.
C6_AllSucceed ==
    <>(/\ pc = "returned"
       /\ result
       /\ \A j \in jobs : status[j] = "done" /\ outcome[j] = "value")

C6_Witness ==
    /\ pc = "returned"
    /\ result
    /\ \A j \in jobs : status[j] = "done"
    /\ \E j \in jobs : requires[j] # {}

OnlyOneForever == Cardinality(jobs) = 1 /\ \A j \in jobs : forever[j]

C9_ShutdownOnce ==
    \A j \in jobs :
        shutdowns[j] = IF pc \in {"return", "returned"} THEN 1 ELSE 0

C9_Witness ==
    /\ pc = "returned"
    /\ abort
    /\ \E j \in jobs : status[j] = "idle" /\ shutdowns[j] = 1

\* the requires relation restricted to the scheduler has no cycle: no
\* nonempty set of its jobs in which every job requires one of the set
Acyclic ==
    ~ \E S \in SUBSET jobs : S # {} /\ \A a \in S : requires[a] \cap S # {}

\* C10: rain_check returns True exactly when the requires relation
\* restricted to the jobs of the scheduler has no cycle, and it changes
\* neither the requirements nor the status of any job.
C10_Verdict == verdict # "none" => (verdict = "true" <=> Acyclic)

C10_Frame ==
    verdict' # verdict => (requires' = requires /\ status' = status /\ jobs' = jobs)

C10_RainCheck == []C10_Verdict /\ [][C10_Frame]_vars

C10_Witness ==
    /\ verdict = "false"
    /\ \E a, b \in jobs : a # b /\ b \in requires[a] /\ a \in requires[b]

\* C11: sanitize removes from the requirements of every job of the
\* scheduler exactly the jobs that are not in the scheduler: afterwards
\* every requirement is in the scheduler, every requirement between two of
\* its jobs is kept, and the collection, statuses and outcomes are as before.
C11_Inside == sanitizes >= 1 => \A j \in jobs : requires[j] \subseteq jobs

C11_Step ==
    sanitizes' = sanitizes + 1 =>
        /\ \A j \in jobs : requires'[j] = requires[j] \cap jobs
        /\ jobs' = jobs
        /\ status' = status
        /\ outcome' = outcome

C11_Sanitize == []C11_Inside /\ [][C11_Step]_vars

C11_Witness ==
    /\ sanitizes = 1
    /\ jobs # Nodes
    /\ \E j \in jobs : requires[j] # {}

\* C12: sanitize is idempotent: once it was applied, applying it again
\* changes no requirement.
C12_Idempotent == [][sanitizes >= 1 => requires' = requires]_vars

C12_Witness ==
    /\ sanitizes = 2
    /\ \E j \in jobs : requires[j] # {}

\* C13: a job is critical when its own setting says so, and when it has no
\* setting of its own and the scheduler is critical; a job without setting
\* in a scheduler left non critical (the default) does not abort the run
\* when it raises.
C13_EffectiveCritical ==
    /\ abort <=> \E j \in jobs :
                   /\ outcome[j] = "exception"
                   /\ \/ critical[j] = "yes"
                      \/ critical[j] = "unset" /\ schedCritical
    /\ (/\ pc = "returned"
        /\ ~schedCritical
        /\ ~elapsed
        /\ \A j \in jobs : critical[j] = "unset") => result

C13_Witness ==
    /\ pc = "returned"
    /\ result
    /\ ~schedCritical
    /\ \E j \in jobs : critical[j] = "unset" /\ outcome[j] = "exception"
    /\ \E j \in jobs : critical[j] = "no"

\* C14: asking a job for its result gives the value it returned exactly
\* when the job is done and its work returned; for a job that is not done,
\* or that raised, the call fails with OutcomeError. No other answer exists.
C14_ResultOrError ==
    \A j \in jobs :
        /\ job_result(j) \in {"value", "OutcomeError"}
        /\ job_result(j) = "value" <=> (status[j] = "done" /\ task[j] = "returned")
        /\ job_result(j) = "OutcomeError" <=>
               (status[j] # "done" \/ task[j] = "raised")

C14_Witness ==
    /\ pc = "returned"
    /\ \E j \in jobs : job_result(j) = "value"
    /\ \E j \in jobs : task[j] = "cancelled" /\ job_result(j) = "OutcomeError"

\* C15: an exception raised by the work of a job, critical or not, ends up
\* recorded as the outcome of that job and the run still ends by returning;
\* recording it touches nothing of the run but the abort flag, and the
\* abort flag only when the job is critical.
C15_Captured ==
    \A j \in jobs :
        (task[j] = "raised" /\ pc \notin {"wait", "complete"}) =>
            status[j] = "done" /\ outcome[j] = "exception"

C15_RunLevel ==
    (\E j \in jobs : outcome[j] # "exception" /\ outcome'[j] = "exception") =>
        /\ pc' = "check"
        /\ elapsed' = elapsed
        /\ result' = result
        /\ shutdowns' = shutdowns
        /\ abort' # abort =>
               \E j \in jobs : /\ outcome[j] # "exception"
                               /\ outcome'[j] = "exception"
                               /\ is_critical(j)

C15_NeverPropagated == []C15_Captured /\ [][C15_RunLevel]_vars

C15_Witness ==
    /\ pc = "returned"
    /\ \E j \in jobs : outcome[j] = "exception" /\ is_critical(j)
    /\ \E j \in jobs : outcome[j] = "exception" /\ ~is_critical(j)

\* C16: from the moment the abort flag is set or the timeout has elapsed,
\* no idle job becomes scheduled and no scheduled job is started; the loop
\* never goes round again, and it moves on to the shutdown phase without
\* waiting for the jobs that are still running.
C16_NoProgress ==
    (abort \/ elapsed) =>
        \A j \in jobs :
            /\ status[j] = "idle" => status'[j] = "idle"
            /\ status[j] = "scheduled" => status'[j] = "scheduled"

C16_NoNewRound ==
    /\ (abort \/ elapsed) => pc \notin {"admit", "launch"}
    /\ abort => pc \notin {"wait", "complete"}
    /\ (elapsed /\ pc = "wait") => ENABLED Wake

C16_StopsAtOnce == []C16_NoNewRound /\ [][C16_NoProgress]_vars

C16_Witness ==
    /\ pc = "returned"
    /\ abort
    /\ \E j \in NonForever : task[j] = "cancelled"

\* C17: when a critical job raised, the run returns False even if that job
\* was the last one to finish and every job that is not forever is done.
C17_LastCritical ==
    (/\ pc = "returned"
     /\ all_done
     /\ CriticalRaised) => ~result

C17_Witness ==
    /\ pc = "returned"
    /\ Cardinality(jobs) = 2
    /\ all_done
    /\ ~elapsed
    /\ ~result
    /\ \E j \in jobs : /\ outcome[j] = "exception"
                       /\ is_critical(j)
                       /\ \E k \in requires[j] : outcome[k] = "value"

status_rank(s) ==
    CASE s = "idle" -> 0
      [] s = "scheduled" -> 1
      [] s = "running" -> 2
      [] s = "done" -> 3

\* C18: the status of a job only moves forward, one stage at a time, along
\* idle, scheduled, running, done; a job becomes running only from
\* scheduled, and only at a moment when the window has a free slot.
C18_Step ==
    \A j \in jobs :
        /\ status_rank(status'[j]) \in {status_rank(status[j]),
                                        status_rank(status[j]) + 1}
        /\ (status'[j] = "running" /\ status[j] # "running") =>
               /\ status[j] = "scheduled"
               /\ window = 0 \/ Cardinality(Running) < window

C18_Forward == [][C18_Step]_vars

C18_Witness ==
    /\ pc = "returned"
    /\ window = 1
    /\ Cardinality(jobs) = 2
    /\ \A j \in jobs : status[j] = "done" /\ requires[j] = {}

\* C19: a job that is not done has no outcome, and a job that is done has
\* one outcome, the value it returned or the exception it raised, the one
\* its work ended with.
C19_OutcomeIffDone ==
    \A j \in jobs :
        /\ status[j] # "done" => outcome[j] = "none"
        /\ status[j] = "done" =>
               /\ outcome[j] \in {"value", "exception"}
               /\ outcome[j] = "value" <=> task[j] = "returned"
               /\ outcome[j] = "exception" <=> task[j] = "raised"

C19_Witness ==
    /\ pc = "returned"
    /\ \E j \in jobs : status[j] = "done" /\ outcome[j] = "exception"
    /\ \E j \in jobs : status[j] = "running" /\ outcome[j] = "none"

\* C20 as stated: a forever job is never done; once started it is running,
\* and from the shutdown phase on it is cancelled.
C20_ForeverNeverDone ==
    \A j \in jobs :
        forever[j] =>
            /\ status[j] # "done"
            /\ task[j] # "none" => status[j] = "running"
            /\ (task[j] # "none" /\ pc \in {"shutdown", "return", "returned"}) =>
                   task[j] = "cancelled"

\* C20: a forever job is done only when its own work returned or raised;
\* as long as its work has not ended, a forever job that was started stays
\* running, and from the shutdown phase on it is cancelled.
C20_ForeverRunsUnlessEnded ==
    \A j \in jobs :
        forever[j] =>
            /\ status[j] = "done" => task[j] \in {"returned", "raised"}
            /\ task[j] \in {"pending", "cancelled"} => status[j] = "running"
            /\ (status[j] = "running" /\ pc \in {"shutdown", "return", "returned"}) =>
                   task[j] = "cancelled"
            /\ task[j] = "cancelled" => pc \in {"shutdown", "return", "returned"}

C20_Witness ==
    /\ pc = "returned"
    /\ \E j \in jobs : forever[j] /\ status[j] = "running" /\ task[j] = "cancelled"
    /\ \E j \in jobs : ~forever[j] /\ status[j] = "done"

\* C21 as stated: when the run has returned no job is running, and every
\* cancelled job is done.
C21_NoneRunningAtReturn ==
    pc = "returned" =>
        \A j \in jobs : /\ status[j] # "running"
                        /\ task[j] = "cancelled" => status[j] = "done"

\* C21: when the run has returned, every job that was still running when
\* the loop stopped, forever or not, has been cancelled; it has neither a
\* value nor an exception as outcome, and it is still listed as running.
\* The jobs that are not running were not cancelled.
C21_RunningAreCancelled ==
    pc = "returned" =>
        \A j \in jobs :
            /\ status[j] = "running" <=> task[j] = "cancelled"
            /\ task[j] = "cancelled" => outcome[j] = "none"
            /\ task[j] # "pending"

C21_Witness ==
    /\ pc = "returned"
    /\ \E j \in jobs : forever[j] /\ task[j] = "cancelled"
    /\ \E j \in jobs : ~forever[j] /\ task[j] = "cancelled"

\* C22: once the loop has stopped, no step changes the status of a job that
\* is not running, so a job idle or scheduled at that moment is still so
\* after the run returned; a job that requires a critical job that raised
\* is idle throughout.
C22_Step ==
    LoopOver => \A j \in jobs : status[j] # "running" => status'[j] = status[j]

C22_DependentIdle ==
    \A q \in jobs : \A p \in requires[q] :
        (is_critical(p) /\ task[p] = "raised") => status[q] = "idle"

C22_ShutdownFrame == []C22_DependentIdle /\ [][C22_Step]_vars

C22_Witness ==
    /\ pc = "returned"
    /\ ~result
    /\ \E q \in jobs : \E p \in requires[q] :
           /\ is_critical(p)
           /\ outcome[p] = "exception"
           /\ status[q] = "idle"

\* the jobs of the scheduler that j requires, directly or not
RECURSIVE closure(_)
closure(S) ==
    LET T == S \cup UNION {requires[a] \cap jobs : a \in S}
    IN  IF T = S THEN S ELSE closure(T)

Upstream(j) == closure(requires[j] \cap jobs)

OnCycle == {j \in jobs : j \in Upstream(j)}

\* C23 as stated: with a cycle among the jobs, the jobs on it stay idle and
\* the loop stops only on a critical exception or on the timeout.
C23_CycleNeverAllDone ==
    OnCycle # {} =>
        /\ \A j \in OnCycle : status[j] = "idle"
        /\ LoopOver => abort \/ elapsed

\* C23: a job on a cycle stays idle, in every state and without any error
\* from the run; when one of the jobs on a cycle is not forever, the loop
\* stops only on a critical exception or on the timeout, and the run does
\* not return True. A cycle of forever jobs alone does not keep the loop
\* from ending once the other jobs are done.
C23_CycleStaysIdle ==
    /\ \A j \in OnCycle : status[j] = "idle"
    /\ (OnCycle \cap NonForever # {}) =>
           /\ LoopOver => abort \/ elapsed
           /\ ~result
           /\ ~all_done

C23_Witness ==
    /\ pc = "returned"
    /\ elapsed
    /\ ~abort
    /\ \E j \in OnCycle : \E k \in OnCycle : j # k /\ ~forever[j]
    /\ \A j \in jobs : status[j] = "idle"

Foreign(j) == requires[j] \ jobs

\* C24: a job with a requirement that is not in the scheduler, when
\* sanitize was not called, is idle in every state of the run, up to and
\* after its return; the run reports no error and, when the job is not
\* forever, never returns True.
C24_ForeignBlocks ==
    \A j \in jobs :
        (Foreign(j) # {} /\ sanitizes = 0) =>
            /\ status[j] = "idle"
            /\ task[j] = "none"
            /\ ~forever[j] => ~result

C24_Witness ==
    /\ pc = "returned"
    /\ sanitizes = 0
    /\ \E j \in jobs : /\ Foreign(j) # {}
                       /\ requires[j] \cap jobs = {}
                       /\ status[j] = "idle"
    /\ \E j \in jobs : status[j] = "done"

ForeverRunning == {j \in Running : forever[j]}

StarvedWindow == window >= 1 /\ Cardinality(ForeverRunning) = window

\* C25: a forever job that was started keeps running, and so keeps its
\* slot of the window, in every later step; when the started forever jobs
\* are as many as the window, no scheduled job is started any more, and the
\* loop stops only on a critical exception or on the timeout: the run does
\* not return True.
C25_Step ==
    /\ \A j \in ForeverRunning : status'[j] = "running"
    /\ StarvedWindow => \A j \in jobs : status[j] = "scheduled" =>
                                            status'[j] = "scheduled"

C25_OnlyAbortOrTimeout ==
    StarvedWindow => /\ LoopOver => abort \/ elapsed
                     /\ ~result

C26_WorkConserving ==
    pc = "wait" =>
        \/ Scheduled = {}
        \/ window >= 1 /\ Cardinality(Running) = window

C26_Witness ==
    /\ pc = "wait"
    /\ window = 0
    /\ Cardinality(jobs) >= 2
    /\ Running = jobs

\* C27: with an acyclic graph, no forever job, no critical job, no timeout
\* and every unit of work ending, by returning or by raising, a run with a
\* window of any size N >= 1 eventually returns True with every job done,
\* whatever the order in which ready jobs are started.
C27_BoundedWindowEnds ==
    window >= 1 =>
        <>(/\ pc = "returned"
           /\ result
           /\ \A j \in jobs : status[j] = "done" /\ outcome[j] # "none")

C27_Witness ==
    /\ pc = "returned"
    /\ result
    /\ window = 1
    /\ Cardinality(jobs) >= 2
    /\ \A j \in jobs : status[j] = "done" /\ requires[j] = {}
    /\ \E j \in jobs : outcome[j] = "exception"

====
